---- MODULE Spec2Model ----
(***************************************************************************)
(* Model of the vote leaderboard bot (src/index.js): the reconciliation    *)
(* cycle updateVoteMessage, the scheduler startVoteMonitoring, the         *)
(* fingerprint generateDataHash and the renderer createVoteEmbed.          *)
(*                                                                         *)
(* JavaScript strings are sequences of UTF-16 code units.  JavaScript      *)
(* null is the number 0 for a message id, the record NullData for a        *)
(* payload, NullEmbed for an embed and NoRow for a missing document.       *)
(***************************************************************************)
EXTENDS Integers, Sequences, FiniteSets, Bags, TLC

(***************************************************************************)
(* Bounds of the model.                                                    *)
(***************************************************************************)
\* cycles started in one behaviour (the startup cycle and the interval ticks)
MaxCycles == 2
\* cycles that may be in flight at the same time
MaxInFlight == 2

(***************************************************************************)
(* Strings.                                                                *)
(***************************************************************************)
Code ==
  [c \in {"\n"} |-> 10] @@ [c \in {" "} |-> 32] @@ ("!" :> 33) @@
  [c \in {"\""} |-> 34] @@ ("*" :> 42) @@ [c \in {","} |-> 44] @@
  [c \in {"-"} |-> 45] @@ ("." :> 46) @@ [c \in {"/"} |-> 47] @@
  ("0" :> 48) @@ ("1" :> 49) @@ ("2" :> 50) @@ ("3" :> 51) @@ ("4" :> 52) @@
  ("5" :> 53) @@ ("6" :> 54) @@ ("7" :> 55) @@ ("8" :> 56) @@ ("9" :> 57) @@
  (":" :> 58) @@
  ("A" :> 65) @@ ("B" :> 66) @@ ("D" :> 68) @@ ("E" :> 69) @@ ("F" :> 70) @@
  ("G" :> 71) @@ ("I" :> 73) @@ ("J" :> 74) @@ ("L" :> 76) @@ ("M" :> 77) @@ ("N" :> 78) @@
  ("O" :> 79) @@ ("P" :> 80) @@ ("S" :> 83) @@ ("T" :> 84) @@ ("U" :> 85) @@ ("V" :> 86) @@
  ("[" :> 91) @@ ("]" :> 93) @@
  ("a" :> 97) @@ ("b" :> 98) @@ ("c" :> 99) @@ ("d" :> 100) @@ ("e" :> 101) @@ ("f" :> 102) @@
  ("g" :> 103) @@ ("h" :> 104) @@ ("i" :> 105) @@ ("k" :> 107) @@ ("l" :> 108) @@
  ("m" :> 109) @@ ("n" :> 110) @@ ("o" :> 111) @@ ("p" :> 112) @@
  ("r" :> 114) @@ ("s" :> 115) @@ ("t" :> 116) @@ ("u" :> 117) @@
  ("v" :> 118) @@ ("w" :> 119) @@ ("y" :> 121) @@
  ("{" :> 123) @@ ("}" :> 125)

\* the string whose characters are listed in cs
Str(cs) == [i \in 1..Len(cs) |-> Code[cs[i]]]

RECURSIVE Concat(_)
Concat(ss) == IF ss = <<>> THEN <<>> ELSE Head(ss) \o Concat(Tail(ss))

\* Number.prototype.toString of a non-negative integer
RECURSIVE NatToString(_)
NatToString(n) ==
  IF n < 10 THEN <<48 + n>> ELSE NatToString(n \div 10) \o <<48 + (n % 10)>>

\* Number.prototype.toString of an integer
IntToString(n) == IF n < 0 THEN <<45>> \o NatToString(0 - n) ELSE NatToString(n)

Quote(s) == <<34>> \o s \o <<34>>

(***************************************************************************)
(* Provider payloads (response.data of the two axios reads).               *)
(***************************************************************************)
\* what fetchVoteCount / fetchVoteTimestamps return when the request fails
NullVoteData == [isNull |-> TRUE, hasVoters |-> FALSE, name |-> <<>>, voters |-> <<>>]
NullTimestampData == [isNull |-> TRUE, hasVotes |-> FALSE, votes |-> <<>>]

VoteDataOf(name, voters) ==
  [isNull |-> FALSE, hasVoters |-> TRUE, name |-> name, voters |-> voters]
\* a parsed response that has no voters property
VoteDataNoVoters == [isNull |-> FALSE, hasVoters |-> FALSE, name |-> <<>>, voters |-> <<>>]
TimestampDataOf(votes) == [isNull |-> FALSE, hasVotes |-> TRUE, votes |-> votes]
\* a parsed response that has no votes property
TimestampDataNoVotes == [isNull |-> FALSE, hasVotes |-> FALSE, votes |-> <<>>]

Voter(nickname, votes) == [nickname |-> nickname, votes |-> votes]
Vote(date, timestamp, nickname) ==
  [date |-> date, timestamp |-> timestamp, nickname |-> nickname]

(***************************************************************************)
(* JSON.stringify of the object hashed by generateDataHash.                *)
(***************************************************************************)
StringifyVoter(v) ==
  Concat(<< Str(<<"{">>), Quote(Str(<<"n","i","c","k","n","a","m","e">>)), Str(<<":">>),
            Quote(v.nickname), Str(<<",">>),
            Quote(Str(<<"v","o","t","e","s">>)), Str(<<":">>), Quote(v.votes),
            Str(<<"}">>) >>)

StringifyVote(e) ==
  Concat(<< Str(<<"{">>), Quote(Str(<<"d","a","t","e">>)), Str(<<":">>), Quote(e.date),
            Str(<<",">>),
            Quote(Str(<<"t","i","m","e","s","t","a","m","p">>)), Str(<<":">>),
            IntToString(e.timestamp), Str(<<",">>),
            Quote(Str(<<"n","i","c","k","n","a","m","e">>)), Str(<<":">>),
            Quote(e.nickname), Str(<<"}">>) >>)

RECURSIVE JoinVoters(_)
JoinVoters(vs) ==
  IF vs = <<>> THEN <<>>
  ELSE IF Len(vs) = 1 THEN StringifyVoter(vs[1])
  ELSE StringifyVoter(vs[1]) \o Str(<<",">>) \o JoinVoters(Tail(vs))

RECURSIVE JoinVotes(_)
JoinVotes(es) ==
  IF es = <<>> THEN <<>>
  ELSE IF Len(es) = 1 THEN StringifyVote(es[1])
  ELSE StringifyVote(es[1]) \o Str(<<",">>) \o JoinVotes(Tail(es))

\* JSON.stringify({ voters: voters, timestamps: votes })
StringifyData(voters, votes) ==
  Concat(<< Str(<<"{">>), Quote(Str(<<"v","o","t","e","r","s">>)), Str(<<":","[">>),
            JoinVoters(voters), Str(<<"]",",">>),
            Quote(Str(<<"t","i","m","e","s","t","a","m","p","s">>)), Str(<<":","[">>),
            JoinVotes(votes), Str(<<"]","}">>) >>)

(***************************************************************************)
(* 32-bit integer arithmetic of generateDataHash.  A value is a signed     *)
(* 32-bit integer; the arithmetic is carried out on its two 16-bit halves. *)
(***************************************************************************)
Half == 65536
LoHalf(h) == h % Half
HiHalf(h) == (h - LoHalf(h)) \div Half
\* the signed 32-bit integer with the given halves (hi taken modulo 2^16)
FromHalves(hi, lo) ==
  LET hh == hi % Half
  IN  (IF hh >= 32768 THEN hh - Half ELSE hh) * Half + lo

\* hash << 5
Shl5(h) ==
  LET l == LoHalf(h) * 32
  IN  FromHalves(HiHalf(h) * 32 + (l \div Half), l % Half)

\* x = (s - h) + char; x & x, the truncation of x to a signed 32-bit integer
SubAddToInt32(s, h, char) ==
  LET l  == LoHalf(s) - LoHalf(h) + char
      lo == l % Half
  IN  FromHalves(HiHalf(s) - HiHalf(h) + ((l - lo) \div Half), lo)

\* mutant: the loop body is hash = (hash << 5) + char
HashStep_times32(hash, char) == SubAddToInt32(Shl5(hash), 0, char)

HashStep(hash, char) == SubAddToInt32(Shl5(hash), hash, char)

\* the loop body for the characters i..j of dataString
RECURSIVE HashChars(_, _, _, _)
HashChars(dataString, i, j, hash) ==
  IF i > j THEN hash
  ELSE LET next == HashStep(hash, dataString[i])
       IN  \* the test forces the value of next before the loop goes on
           IF next \in Int THEN HashChars(dataString, i + 1, j, next) ELSE next

\* the for loop from index i on, taken HashChunk characters at a time
HashChunk == 16
RECURSIVE HashLoop(_, _, _)
HashLoop(dataString, i, hash) ==
  IF i > Len(dataString) THEN hash
  ELSE LET j    == IF i + HashChunk - 1 > Len(dataString)
                     THEN Len(dataString) ELSE i + HashChunk - 1
           next == HashChars(dataString, i, j, hash)
       IN  IF next \in Int THEN HashLoop(dataString, j + 1, next) ELSE next

generateDataHash(voteData, timestampData) ==
  LET dataString ==
        StringifyData(IF voteData.isNull \/ ~voteData.hasVoters THEN <<>> ELSE voteData.voters,
                      IF timestampData.isNull \/ ~timestampData.hasVotes
                        THEN <<>> ELSE timestampData.votes)
  IN  IntToString(HashLoop(dataString, 1, 0))

(***************************************************************************)
(* String helpers of convertESTtoIST.                                      *)
(***************************************************************************)
IsDigit(c) == c \in 48..57
IsSpace(c) == c = 32

\* s.slice(i - 1, j), the characters i..j of s (empty when i > j)
Slice(s, i, j) == IF i > j THEN <<>> ELSE SubSeq(s, i, j)

\* does pat occur in s at index i
OccursAt(s, pat, i) ==
  /\ i >= 1
  /\ i + Len(pat) - 1 <= Len(s)
  /\ \A k \in 1..Len(pat) : s[i + k - 1] = pat[k]

\* s.indexOf(pat) + 1, 0 when pat does not occur
IndexOf(s, pat) ==
  LET hits == {i \in 1..Len(s) : OccursAt(s, pat, i)}
  IN  IF hits = {} THEN 0 ELSE CHOOSE i \in hits : \A k \in hits : i <= k

\* s.replace(pat, ''), the first occurrence only
RemoveFirst(s, pat) ==
  LET i == IndexOf(s, pat)
  IN  IF i = 0 THEN s ELSE Slice(s, 1, i - 1) \o Slice(s, i + Len(pat), Len(s))

\* s.trim()
Trim(s) ==
  LET keep == {i \in 1..Len(s) : ~IsSpace(s[i])}
  IN  IF keep = {} THEN <<>>
      ELSE Slice(s, CHOOSE i \in keep : \A k \in keep : i <= k,
                    CHOOSE i \in keep : \A k \in keep : i >= k)

OrdinalSuffixes == {Str(<<"s","t">>), Str(<<"n","d">>), Str(<<"r","d">>), Str(<<"t","h">>)}

\* s.replace(/(\d+)(st|nd|rd|th)/, '$1'): the leftmost digit run that an
\* ordinal suffix follows loses the suffix
StripOrdinal(s) ==
  LET hits == {i \in 1..Len(s) : /\ IsDigit(s[i])
                                 /\ \E suf \in OrdinalSuffixes : OccursAt(s, suf, i + 1)}
  IN  IF hits = {} THEN s
      ELSE LET i == CHOOSE i \in hits : \A k \in hits : i <= k
           IN  Slice(s, 1, i) \o Slice(s, i + 3, Len(s))

\* String(n).padStart(2, '0')
PadStart2(n) == IF n < 10 THEN <<48>> \o NatToString(n) ELSE NatToString(n)

\* the value of a string of decimal digits
RECURSIVE DigitsValue(_)
DigitsValue(s) ==
  IF s = <<>> THEN 0 ELSE DigitsValue(Slice(s, 1, Len(s) - 1)) * 10 + (s[Len(s)] - 48)

AllDigits(s) == s # <<>> /\ \A i \in 1..Len(s) : IsDigit(s[i])

(***************************************************************************)
(* The Date object as convertESTtoIST uses it.  A time value is a number   *)
(* of seconds since 1970-01-01T00:00:00Z (the inputs carry no fraction of  *)
(* a second); NaN is the record InvalidTime.                               *)
(***************************************************************************)
InvalidTime == [nan |-> TRUE, t |-> 0]
TimeValue(t) == [nan |-> FALSE, t |-> t]

\* days from 1970-01-01 to the first day of month m (1..12) of year y, plus d - 1
DaysFromCivil(y, m, d) ==
  LET yy  == IF m <= 2 THEN y - 1 ELSE y
      era == yy \div 400
      yoe == yy - era * 400
      mp  == IF m > 2 THEN m - 3 ELSE m + 9
      doy == ((153 * mp + 2) \div 5) + d - 1
      doe == yoe * 365 + (yoe \div 4) - (yoe \div 100) + doy
  IN  era * 146097 + doe - 719468

\* the calendar date of a day number
CivilFromDays(days) ==
  LET z   == days + 719468
      era == z \div 146097
      doe == z - era * 146097
      yoe == (doe - (doe \div 1460) + (doe \div 36524) - (doe \div 146096)) \div 365
      doy == doe - (365 * yoe + (yoe \div 4) - (yoe \div 100))
      mp  == (5 * doy + 2) \div 153
      d   == doy - ((153 * mp + 2) \div 5) + 1
      m   == IF mp < 10 THEN mp + 3 ELSE mp - 9
  IN  [year |-> (yoe + era * 400) + (IF m <= 2 THEN 1 ELSE 0), month |-> m, date |-> d]

MonthNames ==
  << Str(<<"J","a","n">>), Str(<<"F","e","b">>), Str(<<"M","a","r">>), Str(<<"A","p","r">>),
     Str(<<"M","a","y">>), Str(<<"J","u","n">>), Str(<<"J","u","l">>), Str(<<"A","u","g">>),
     Str(<<"S","e","p">>), Str(<<"O","c","t">>), Str(<<"N","o","v">>), Str(<<"D","e","c">>) >>

\* the month (1..12) a word names by its first three letters, 0 for no month
MonthOf(word) ==
  LET hits == {m \in 1..12 : Len(word) >= 3 /\ Slice(word, 1, 3) = MonthNames[m]}
  IN  IF hits = {} THEN 0 ELSE CHOOSE m \in hits : TRUE

\* the words of s that single spaces separate
RECURSIVE Words(_)
Words(s) ==
  LET i == IndexOf(s, <<32>>)
  IN  IF i = 0 THEN <<s>> ELSE <<Slice(s, 1, i - 1)>> \o Words(Slice(s, i + 1, Len(s)))

\* the fields of a clock word HH:MM or HH:MM:SS, ok FALSE for anything else
ClockOf(word) ==
  LET i    == IndexOf(word, <<58>>)
      rest == Slice(word, i + 1, Len(word))
      j    == IndexOf(rest, <<58>>)
      hh   == Slice(word, 1, i - 1)
      mm   == IF j = 0 THEN rest ELSE Slice(rest, 1, j - 1)
      ss   == IF j = 0 THEN <<48>> ELSE Slice(rest, j + 1, Len(rest))
  IN  IF i # 0 /\ AllDigits(hh) /\ AllDigits(mm) /\ AllDigits(ss)
           /\ Len(hh) <= 2 /\ Len(mm) <= 2 /\ Len(ss) <= 2
        THEN [ok |-> TRUE, h |-> DigitsValue(hh), m |-> DigitsValue(mm), s |-> DigitsValue(ss)]
        ELSE [ok |-> FALSE, h |-> 0, m |-> 0, s |-> 0]

GmtMinus5 == Str(<<"G","M","T","-","0","5","0","0">>)
SourceOffsetSeconds == 5 * 3600

\* new Date(s).getTime() for s of the layout
\*   Month D, YYYY HH:MM[:SS] AM|PM GMT-0500
\* (the layout the provider sends, once cleaned); NaN for any other string
DateParse(s) ==
  LET w == Words(s)
  IN  IF Len(w) # 6 THEN InvalidTime
      ELSE
        LET month == MonthOf(w[1])
            dayW  == IF w[2] # <<>> /\ w[2][Len(w[2])] = 44
                       THEN Slice(w[2], 1, Len(w[2]) - 1) ELSE w[2]
            clock == ClockOf(w[4])
            isAM  == w[5] = Str(<<"A","M">>)
            isPM  == w[5] = Str(<<"P","M">>)
        IN  IF \/ month = 0
               \/ ~AllDigits(dayW) \/ Len(dayW) > 2
               \/ ~AllDigits(w[3]) \/ Len(w[3]) # 4
               \/ ~clock.ok
               \/ ~(isAM \/ isPM)
               \/ w[6] # GmtMinus5
              THEN InvalidTime
            ELSE
              LET day  == DigitsValue(dayW)
                  year == DigitsValue(w[3])
              IN  IF \/ day < 1 \/ day > 31
                     \/ clock.h > 12 \/ clock.m > 59 \/ clock.s > 59
                    THEN InvalidTime
                  ELSE TimeValue(DaysFromCivil(year, month, day) * 86400
                                 + ((clock.h % 12) + (IF isPM THEN 12 ELSE 0)) * 3600
                                 + clock.m * 60 + clock.s + SourceOffsetSeconds)

\* the local-time getters of a Date on a host whose zone is tzMinutes east of UTC
LocalFields(t, tzMinutes) ==
  LET local == t + tzMinutes * 60
      days  == local \div 86400
      secs  == local - days * 86400
      civil == CivilFromDays(days)
  IN  [getFullYear |-> civil.year, getMonth |-> civil.month - 1, getDate |-> civil.date,
       getHours |-> secs \div 3600, getMinutes |-> (secs % 3600) \div 60,
       getSeconds |-> secs % 60]

Unknown == Str(<<"U","n","k","n","o","w","n">>)
InvalidDate == Str(<<"I","n","v","a","l","i","d"," ","D","a","t","e">>)
\* 10.5 * 60 * 60 * 1000 milliseconds
IstShiftSeconds == 37800

\* the text convertESTtoIST builds from the getters of istDate
FormatIST(istDate) ==
  LET day     == PadStart2(istDate.getDate)
      month   == PadStart2(istDate.getMonth + 1)
      year    == NatToString(istDate.getFullYear)
      minutes == PadStart2(istDate.getMinutes)
      seconds == PadStart2(istDate.getSeconds)
      ampm    == IF istDate.getHours >= 12 THEN Str(<<"P","M">>) ELSE Str(<<"A","M">>)
      h12     == istDate.getHours % 12
      hours   == IF h12 = 0 THEN 12 ELSE h12
  IN  Concat(<< day, Str(<<"/">>), month, Str(<<"/">>), year, Str(<<","," ">>),
                NatToString(hours), Str(<<":">>), minutes, Str(<<":">>), seconds,
                Str(<<" ">>), ampm, Str(<<" ","I","S","T">>) >>)

\* the result once estDate is parsed
FormatParsed(estDate, tzMinutes) ==
  IF estDate.nan THEN InvalidDate
  ELSE FormatIST(LocalFields(estDate.t + IstShiftSeconds, tzMinutes))

convertESTtoIST(estDateString, tzMinutes) ==
  IF estDateString = <<>> \/ estDateString = Unknown THEN Unknown
  ELSE
    LET dateStr == StripOrdinal(Trim(RemoveFirst(estDateString, Str(<<" ","E","S","T">>))))
    IN  FormatParsed(DateParse(dateStr \o Str(<<" ">>) \o GmtMinus5), tzMinutes)

\* a value of the date property of a vote as JSON delivers it: a string, a
\* number or null
JsString(text) == [kind |-> "string", text |-> text, number |-> 0]
JsNumber(n) == [kind |-> "number", text |-> <<>>, number |-> n]
JsNull == [kind |-> "null", text |-> <<>>, number |-> 0]

\* !value
Falsy(value) ==
  \/ value.kind = "null"
  \/ value.kind = "string" /\ value.text = <<>>
  \/ value.kind = "number" /\ value.number = 0

\* the lines of convertESTtoIST at which the call with this value throws:
\* a number has no replace method (the TypeError of line 117); the Date
\* constructor, the getters and padStart never throw
ThrowsAt(value) == IF ~Falsy(value) /\ value.kind # "string" THEN {117} ELSE {}

\* the lines the try block of lines 116-140 covers
TryBlock == 117..139

\* mutant: the cleaning of the string stands outside the try block
convertESTtoISTThrows_noTry(value) == ThrowsAt(value) # {}

\* does convertESTtoIST throw to its caller
convertESTtoISTThrows(value) == ThrowsAt(value) \ TryBlock # {}

\* this.convertESTtoIST(value) where the call returns
convertESTtoISTOf(value, tzMinutes) ==
  IF Falsy(value) THEN Unknown
  ELSE IF ThrowsAt(value) # {} THEN InvalidDate
  ELSE convertESTtoIST(value.text, tzMinutes)

(***************************************************************************)
(* Array.prototype.sort and the two comparators of the source.             *)
(***************************************************************************)
\* parseInt(s) of a string that starts with a decimal digit; NaN otherwise
ParseIntIsNaN(s) == s = <<>> \/ ~IsDigit(s[1])
ParseInt(s) ==
  LET stops == {i \in 1..Len(s) : ~IsDigit(s[i])}
      last  == IF stops = {} THEN Len(s)
               ELSE (CHOOSE i \in stops : \A k \in stops : i <= k) - 1
  IN  DigitsValue(Slice(s, 1, last))

\* mutant: the comparator is (a, b) => parseInt(a.votes) - parseInt(b.votes)
CompareVoters_ascending(a, b) ==
  IF ParseIntIsNaN(a.votes) \/ ParseIntIsNaN(b.votes) THEN 0
  ELSE ParseInt(a.votes) - ParseInt(b.votes)

\* the comparator (a, b) => parseInt(b.votes) - parseInt(a.votes); a NaN
\* result counts as 0
CompareVoters(a, b) ==
  IF ParseIntIsNaN(a.votes) \/ ParseIntIsNaN(b.votes) THEN 0
  ELSE ParseInt(b.votes) - ParseInt(a.votes)

\* mutant: the comparator is (a, b) => a.timestamp - b.timestamp
CompareVotes_oldestFirst(a, b) == a.timestamp - b.timestamp

\* the comparator (a, b) => b.timestamp - a.timestamp
CompareVotes(a, b) == b.timestamp - a.timestamp

\* the place a stable sort gives to the element at index i, cmp[j][i] being
\* the comparator's result for (arr[j], arr[i]): after every element that
\* compares before it and after the equal ones that precede it
SortedPlace(arr, i, cmp) ==
  1 + Cardinality({j \in 1..Len(arr) : \/ cmp[j][i] < 0
                                       \/ cmp[j][i] = 0 /\ j < i})

\* arr.sort(comparator), the sort being stable
StableSort(arr, cmp) ==
  [p \in 1..Len(arr) |-> arr[CHOOSE i \in 1..Len(arr) : SortedPlace(arr, i, cmp) = p]]

\* arr.filter(Keep)
RECURSIVE Filter(_, _)
Filter(arr, keep) ==
  IF arr = <<>> THEN <<>>
  ELSE (IF Head(arr) \in keep THEN <<Head(arr)>> ELSE <<>>) \o Filter(Tail(arr), keep)

(***************************************************************************)
(* getLatestTimestampForUser and createVoteEmbed.                          *)
(***************************************************************************)
NoVote == [found |-> FALSE, vote |-> Vote(<<>>, 0, <<>>)]

\* timestamps.votes is read without a check: a payload without votes throws
getLatestTimestampForUserThrows(timestamps) == ~timestamps.hasVotes

getLatestTimestampForUser(timestamps, nickname) ==
  LET userVotes == Filter(timestamps.votes,
                          {v \in {timestamps.votes[i] : i \in 1..Len(timestamps.votes)} :
                             v.nickname = nickname})
  IN  IF Len(userVotes) = 0 THEN NoVote
      ELSE [found |-> TRUE, vote |-> StableSort(userVotes,
                    [j \in 1..Len(userVotes) |-> [i \in 1..Len(userVotes) |->
                       CompareVotes(userVotes[j], userVotes[i])]])[1]]

NullEmbed == [isNull |-> TRUE, title |-> <<>>, description |-> <<>>]
NoVotesYet ==
  Str(<<"N","o"," ","v","o","t","e","s"," ","t","h","i","s"," ","m","o","n","t","h"," ",
        "y","e","t","!">>)
DefaultTitle ==
  Str(<<"M","i","n","e","c","r","a","f","t"," ","S","e","r","v","e","r">>)

\* line 171: latestVote ? this.convertESTtoIST(latestVote.date) : 'Unknown'
LastVoteDateOf(latestVote, tzMinutes) ==
  IF latestVote.found THEN convertESTtoIST(latestVote.vote.date, tzMinutes) ELSE Unknown

\* mutant: the rank shown is index, not index + 1
VoterLines_zeroBased(voter, index, timestampData, tzMinutes) ==
  Concat(<< Str(<<"*","*">>), NatToString(index), Str(<<".","*","*"," ">>),
            voter.nickname, Str(<<"\n">>),
            Str(<<"*","*","V","o","t","e","s",":","*","*"," ">>), voter.votes,
            Str(<<"\n">>),
            Str(<<"*","*","L","a","s","t"," ","V","o","t","e",":","*","*"," ">>),
            LastVoteDateOf(getLatestTimestampForUser(timestampData, voter.nickname),
                           tzMinutes),
            Str(<<"\n","\n">>) >>)

\* the three lines the forEach callback appends for the voter at 0-based index
VoterLines(voter, index, timestampData, tzMinutes) ==
  LET latestVote   == getLatestTimestampForUser(timestampData, voter.nickname)
      lastVoteDate == LastVoteDateOf(latestVote, tzMinutes)
  IN  Concat(<< Str(<<"*","*">>), NatToString(index + 1), Str(<<".","*","*"," ">>),
                voter.nickname, Str(<<"\n">>),
                Str(<<"*","*","V","o","t","e","s",":","*","*"," ">>), voter.votes,
                Str(<<"\n">>),
                Str(<<"*","*","L","a","s","t"," ","V","o","t","e",":","*","*"," ">>),
                lastVoteDate, Str(<<"\n","\n">>) >>)

RECURSIVE Describe(_, _, _, _)
Describe(sortedVoters, index, timestampData, tzMinutes) ==
  IF index >= Len(sortedVoters) THEN <<>>
  ELSE VoterLines(sortedVoters[index + 1], index, timestampData, tzMinutes)
         \o Describe(sortedVoters, index + 1, timestampData, tzMinutes)

\* voteData.voters.sort(...), which also reorders voteData.voters in place
sortedVoters(voteData) ==
  StableSort(voteData.voters,
             [j \in 1..Len(voteData.voters) |-> [i \in 1..Len(voteData.voters) |->
                CompareVoters(voteData.voters[j], voteData.voters[i])]])

\* does createVoteEmbed throw (the TypeError of timestamps.votes.filter)
createVoteEmbedThrows(voteData, timestampData) ==
  /\ ~voteData.isNull /\ voteData.hasVoters /\ ~timestampData.isNull
  /\ Len(voteData.voters) > 0
  /\ getLatestTimestampForUserThrows(timestampData)

createVoteEmbed(voteData, timestampData, tzMinutes) ==
  IF voteData.isNull \/ ~voteData.hasVoters \/ timestampData.isNull THEN NullEmbed
  ELSE [isNull |-> FALSE,
        title |-> IF voteData.name = <<>> THEN DefaultTitle ELSE voteData.name,
        description |->
          IF Len(sortedVoters(voteData)) = 0 THEN NoVotesYet
          ELSE Describe(sortedVoters(voteData), 0, timestampData, tzMinutes)]

(***************************************************************************)
(* Inputs of the model: what the two provider reads may return and the     *)
(* zones of the host the bot runs on.                                      *)
(***************************************************************************)
NickA == Str(<<"A">>)
DateA ==
  Str(<<"J","u","l","y"," ","2","3","r","d",","," ","2","0","2","5"," ",
        "0","2",":","2","7"," ","A","M"," ","E","S","T">>)

\* the response bodies the model lets the provider send.  The state holds a
\* payload by reference: its index here, 0 for the null of a failed read
VoteCountPayloads ==
  << VoteDataNoVoters,
     VoteDataOf(<<>>, <<Voter(NickA, Str(<<"3">>))>>),
     VoteDataOf(<<>>, <<Voter(NickA, Str(<<"4">>))>> ) >>

TimestampPayloads ==
  << TimestampDataNoVotes,
     TimestampDataOf(<<Vote(DateA, 1753252020, NickA)>>) >>

VoteCountResults == 0..Len(VoteCountPayloads)
TimestampResults == 0..Len(TimestampPayloads)

\* mutant: the catch of fetchVoteCount returns a stock payload, not null
VoteDataAt_stock(ref) == IF ref = 0 THEN VoteCountPayloads[2] ELSE VoteCountPayloads[ref]
VoteDataAt(ref) == IF ref = 0 THEN NullVoteData ELSE VoteCountPayloads[ref]
TimestampDataAt(ref) == IF ref = 0 THEN NullTimestampData ELSE TimestampPayloads[ref]

\* minutes east of UTC of the host's zone
HostZones == {0}

\* generateDataHash and createVoteEmbed over the inputs of the model; the
\* merge with the empty function makes each a table that is computed once
newHashOf ==
  [d \in VoteCountResults \X TimestampResults |->
     generateDataHash(VoteDataAt(d[1]), TimestampDataAt(d[2]))] @@ <<>>

embedThrowsOf ==
  [d \in VoteCountResults \X TimestampResults |->
     createVoteEmbedThrows(VoteDataAt(d[1]), TimestampDataAt(d[2]))] @@ <<>>

embedOf ==
  [d \in VoteCountResults \X TimestampResults \X HostZones |->
     IF embedThrowsOf[<<d[1], d[2]>>] THEN NullEmbed
     ELSE createVoteEmbed(VoteDataAt(d[1]), TimestampDataAt(d[2]), d[3])] @@ <<>>

(***************************************************************************)
(* State.                                                                  *)
(***************************************************************************)
VARIABLES
  started,     \* startVoteMonitoring has run: the interval is armed
  now,         \* the host clock, in interval periods since the start
  nCycles,     \* calls of updateVoteMessage so far
  cycles,      \* the bag of the calls of updateVoteMessage in flight
  messages,    \* the channel: every message the bot sent, in order of id
  db,          \* the VoteData document of this.serverKey
  hostTz,      \* the zone of the host, minutes east of UTC
  lastDone,    \* the call of updateVoteMessage that returned in the last step
  unsavedSend, \* some call sent a message and returned without saving
  saveFailed,  \* the calls whose save was rejected: what each had done
  shapeIn,     \* the two payloads handed to generateDataHash and createVoteEmbed
  shapeOut     \* what the function applied to shapeIn returned

vars == <<started, now, nCycles, cycles, messages, db, hostTz, lastDone, unsavedSend,
          saveFailed,
          shapeIn, shapeOut>>

\* an EmbedBuilder, held by the payloads it was built from
EmbedRef(voteData, timestampData) ==
  [isNull |-> embedOf[<<voteData, timestampData, hostTz>>].isNull,
   voteData |-> voteData, timestampData |-> timestampData]
NullEmbedRef == [isNull |-> TRUE, voteData |-> 0, timestampData |-> 0]
\* the title and description a message shows
EmbedShown(ref) ==
  IF ref.isNull THEN NullEmbed ELSE embedOf[<<ref.voteData, ref.timestampData, hostTz>>]

\* VoteDataSchema: the document and its defaults
NoRow ==
  [exists |-> FALSE, lastUpdateHash |-> <<>>, lastMessageId |-> 0,
   createdAt |-> 0, updatedAt |-> 0]

\* new VoteData({ serverId: this.serverKey }) at time t
NewVoteData(t) ==
  [isNew |-> TRUE, lastUpdateHash |-> <<>>, lastMessageId |-> 0,
   createdAt |-> t, updatedAt |-> t, modified |-> {}]

\* the document findOne hydrates from the stored row
Hydrate(row) ==
  [isNew |-> FALSE, lastUpdateHash |-> row.lastUpdateHash,
   lastMessageId |-> row.lastMessageId,
   createdAt |-> row.createdAt, updatedAt |-> row.updatedAt, modified |-> {}]

\* mutant: an assignment does not mark its path modified
SetPath_unmarked(doc, path, value) == [doc EXCEPT ![path] = value]

\* doc.path = value; the path is marked modified when the value changes
SetPath(doc, path, value) ==
  IF doc[path] = value THEN doc
  ELSE [doc EXCEPT ![path] = value, !.modified = @ \cup {path}]

\* doc.path = new Date(): the host clock has moved on since the stored date
\* was taken (the clock of the model is coarser), so the path is modified
SetDate(doc, path, t) == [doc EXCEPT ![path] = t, !.modified = @ \cup {path}]

\* the row after doc.save() succeeded: an insert of a new document, an
\* update of the modified paths of a stored one
SavedRow(doc, row) ==
  IF doc.isNew
    THEN [exists |-> TRUE, lastUpdateHash |-> doc.lastUpdateHash,
          lastMessageId |-> doc.lastMessageId,
          createdAt |-> doc.createdAt, updatedAt |-> doc.updatedAt]
    ELSE [exists |-> row.exists,
          lastUpdateHash |-> IF "lastUpdateHash" \in doc.modified
                               THEN doc.lastUpdateHash ELSE row.lastUpdateHash,
          lastMessageId |-> IF "lastMessageId" \in doc.modified
                              THEN doc.lastMessageId ELSE row.lastMessageId,
          createdAt |-> row.createdAt,
          updatedAt |-> IF "updatedAt" \in doc.modified
                          THEN doc.updatedAt ELSE row.updatedAt]

\* serverId is unique: the insert of a second document is rejected
SaveMustFail(doc, row) == doc.isNew /\ row.exists

\* a call of updateVoteMessage that has not started.  The fields from pc
\* to message are the position and the locals of the call; the fields from
\* loaded on record what the call has observed and done
IdleCycle ==
  [pc |-> "idle",
   voteDone |-> FALSE, tsDone |-> FALSE,
   voteData |-> 0, timestampData |-> 0,
   newHash |-> <<>>, storedData |-> NewVoteData(0), embed |-> NullEmbedRef, message |-> 0,
   loaded |-> FALSE, hadRow |-> FALSE, loadedHash |-> <<>>, loadedMessageId |-> 0,
   probe |-> "none", editOutcome |-> "none", editedId |-> 0,
   sent |-> 0, edited |-> 0, saved |-> FALSE, stampedAt |-> 0,
   rowBefore |-> NoRow, wrote |-> NoRow]

NoneDone == [IdleCycle EXCEPT !.pc = "none"]

LiveIds == {i \in 1..Len(messages) : messages[i].live}
IsLive(id) == id \in LiveIds
\* the number of calls of updateVoteMessage that have not returned
InFlight == BagCardinality(cycles)

\* no payloads handed over, no function applied
NoShapeIn ==
  [voteData |-> NullVoteData, timestampData |-> NullTimestampData, date |-> JsNull]
NoShapeOut ==
  [op |-> "none", hash |-> <<>>, sortedVoters |-> <<>>, records |-> <<>>,
   embed |-> NullEmbed, threw |-> FALSE, lastVoteDate |-> <<>>]

NewMessage(embed) == [live |-> TRUE, embed |-> embed]

\* the bot after its construction: no call made
Constructed ==
  /\ started = FALSE
  /\ now = 0
  /\ nCycles = 0
  /\ cycles = EmptyBag
  /\ hostTz \in HostZones
  /\ lastDone = NoneDone
  /\ unsavedSend = FALSE
  /\ saveFailed = {}

\* the first run of the bot: the channel holds no message of it and
\* findOne will find no document
FirstRun ==
  /\ messages = <<>>
  /\ db = NoRow

\* a later run: an earlier process read the payloads 2 and 2, sent message 1
\* and saved the document that lines 261-268 write
LaterRun ==
  /\ messages = <<NewMessage(EmbedRef(2, 2))>>
  /\ db = [exists |-> TRUE, lastUpdateHash |-> newHashOf[<<2, 2>>],
           lastMessageId |-> 1, createdAt |-> 0, updatedAt |-> 0]

Init ==
  /\ Constructed
  /\ FirstRun \/ LaterRun
  /\ shapeIn = NoShapeIn
  /\ shapeOut = NoShapeOut

(***************************************************************************)
(* updateVoteMessage.  A call stands at the await it is suspended on; pc   *)
(* names the source line of that await.  One action is the completion of   *)
(* the awaited call together with the code that runs up to the next await. *)
(***************************************************************************)
\* the call c returns, in the state cyc, normally or through the catch of
\* line 271
Return(c, cyc, outcome) ==
  /\ cycles' = cycles (-) SetToBag({c})
  /\ lastDone' = [cyc EXCEPT !.pc = outcome]
  /\ unsavedSend' = (unsavedSend \/ (cyc.sent > 0 /\ ~cyc.saved))
  /\ saveFailed' = IF outcome = "saveError"
                     THEN saveFailed \cup {[edited |-> cyc.edited > 0,
                                            newHash |-> cyc.newHash,
                                            message |-> cyc.message]}
                     ELSE saveFailed

\* the call c goes on, in the state cyc, to its next await
Goto(c, cyc) ==
  /\ cycles' = (cycles (-) SetToBag({c})) (+) SetToBag({cyc})
  /\ lastDone' = NoneDone
  /\ UNCHANGED <<unsavedSend, saveFailed>>

\* line 199: a call starts and suspends on channels.fetch
NewCycle == [IdleCycle EXCEPT !.pc = "L201"]

\* lines 276-282: the first call is made and the interval is armed
startVoteMonitoring ==
  /\ ~started
  /\ started' = TRUE
  /\ nCycles' = nCycles + 1
  /\ cycles' = cycles (+) SetToBag({NewCycle})
  /\ lastDone' = NoneDone
  /\ UNCHANGED <<now, messages, db, hostTz, shapeIn, shapeOut, unsavedSend, saveFailed>>

\* mutant: the interval makes a call only when none is in flight
IntervalTick_whenIdle ==
  /\ started
  /\ nCycles < MaxCycles
  /\ InFlight = 0
  /\ now' = now + 1
  /\ nCycles' = nCycles + 1
  /\ cycles' = cycles (+) SetToBag({NewCycle})
  /\ lastDone' = NoneDone
  /\ UNCHANGED <<started, messages, db, hostTz, shapeIn, shapeOut, unsavedSend, saveFailed>>

\* lines 279-281: the interval fires and makes a call, whatever is in flight
IntervalTick ==
  /\ started
  /\ nCycles < MaxCycles
  /\ InFlight < MaxInFlight
  /\ now' = now + 1
  /\ nCycles' = nCycles + 1
  /\ cycles' = cycles (+) SetToBag({NewCycle})
  /\ lastDone' = NoneDone
  /\ UNCHANGED <<started, messages, db, hostTz, shapeIn, shapeOut, unsavedSend, saveFailed>>

\* lines 201-210: channels.fetch settles; both provider reads are issued
ChannelFetched(c) ==
  /\ c.pc = "L201"
  /\ \E outcome \in {"ok", "null", "throw"} :
       CASE outcome = "ok" -> Goto(c, [c EXCEPT !.pc = "L207"])
         [] outcome = "null" -> Return(c, c, "channelNotFound")
         [] outcome = "throw" -> Return(c, c, "channelError")
  /\ UNCHANGED <<started, now, nCycles, messages, db, hostTz, shapeIn, shapeOut>>

\* line 212: !voteData || !timestampData
FetchFailed(voteData, timestampData) == voteData.isNull \/ timestampData.isNull

\* lines 212-218: Promise.all has both results; the hash is taken and
\* findOne is issued
AfterPromiseAll(c, cyc) ==
  IF FetchFailed(VoteDataAt(cyc.voteData), TimestampDataAt(cyc.timestampData))
    THEN Return(c, cyc, "fetchFailed")
    ELSE Goto(c, [cyc EXCEPT !.pc = "L218",
                             !.newHash = newHashOf[<<cyc.voteData, cyc.timestampData>>]])

\* lines 89-99: fetchVoteCount settles
FetchVoteCountDone(c) ==
  /\ c.pc = "L207"
  /\ ~c.voteDone
  /\ \E r \in VoteCountResults :
       LET cyc == [c EXCEPT !.voteDone = TRUE, !.voteData = r]
       IN  IF cyc.tsDone THEN AfterPromiseAll(c, cyc) ELSE Goto(c, cyc)
  /\ UNCHANGED <<started, now, nCycles, messages, db, hostTz, shapeIn, shapeOut>>

\* mutant: the call goes on as soon as fetchVoteTimestamps settles
FetchVoteTimestampsDone_alone(c) ==
  /\ c.pc = "L207"
  /\ ~c.tsDone
  /\ \E r \in TimestampResults :
       AfterPromiseAll(c, [c EXCEPT !.tsDone = TRUE, !.timestampData = r])
  /\ UNCHANGED <<started, now, nCycles, messages, db, hostTz, shapeIn, shapeOut>>

\* lines 101-111: fetchVoteTimestamps settles
FetchVoteTimestampsDone(c) ==
  /\ c.pc = "L207"
  /\ ~c.tsDone
  /\ \E r \in TimestampResults :
       LET cyc == [c EXCEPT !.tsDone = TRUE, !.timestampData = r]
       IN  IF cyc.voteDone THEN AfterPromiseAll(c, cyc) ELSE Goto(c, cyc)
  /\ UNCHANGED <<started, now, nCycles, messages, db, hostTz, shapeIn, shapeOut>>

\* lines 243-264 up to the first await: the embed is built and the call
\* suspends on messages.fetch (252) or on the first send (261)
ChangedBranch(c, cyc) ==
  IF embedThrowsOf[<<cyc.voteData, cyc.timestampData>>]
    THEN Return(c, cyc, "embedError")
    ELSE LET embed == EmbedRef(cyc.voteData, cyc.timestampData)
         IN  IF embed.isNull THEN Return(c, cyc, "noEmbed")
             ELSE IF cyc.storedData.lastMessageId # 0
               THEN Goto(c, [cyc EXCEPT !.pc = "L252", !.embed = embed])
               ELSE Goto(c, [cyc EXCEPT !.pc = "L261", !.embed = embed])

\* lines 218-221: the document the call works on
LoadStoredData(row, t) == IF row.exists THEN Hydrate(row) ELSE NewVoteData(t)

\* mutant: the comparison of line 223 never holds
HashUnchanged_never(storedData, newHash) == FALSE

\* line 223: storedData.lastUpdateHash === newHash
HashUnchanged(storedData, newHash) == storedData.lastUpdateHash = newHash

\* lines 218-226: findOne settles; the stored hash is compared
FindOneDone(c) ==
  /\ c.pc = "L218"
  /\ \E outcome \in {"ok", "throw"} :
       IF outcome = "throw" THEN Return(c, c, "loadError")
       ELSE
         LET storedData == LoadStoredData(db, now)
             cyc == [c EXCEPT !.storedData = storedData,
                              !.loaded = TRUE,
                              !.hadRow = db.exists,
                              !.loadedHash = storedData.lastUpdateHash,
                              !.loadedMessageId = storedData.lastMessageId]
         IN  IF HashUnchanged(storedData, cyc.newHash)
               THEN IF storedData.lastMessageId # 0
                      THEN Goto(c, [cyc EXCEPT !.pc = "L226"])
                      ELSE Return(c, cyc, "noChangeNoMessage")
               ELSE ChangedBranch(c, cyc)
  /\ UNCHANGED <<started, now, nCycles, messages, db, hostTz, shapeIn, shapeOut>>

\* what channel.messages.fetch(id) may answer: the message, the rejection
\* Unknown Message, or the rejection of a request that failed on the way
MessageFetchOutcomes(id) ==
  IF IsLive(id) THEN {"found", "error"} ELSE {"notFound", "error"}

\* mutant: no rejection reaches the catch
Caught_never(outcome) == FALSE

\* lines 231 and 255: the bare catch takes every rejection alike
Caught(outcome) == outcome # "found"

\* lines 226-234: the existence check of the unchanged branch settles; the
\* catch of line 231 builds the embed and sends
ProbeDone(c) ==
  /\ c.pc = "L226"
  /\ \E outcome \in MessageFetchOutcomes(c.storedData.lastMessageId) :
       LET cyc == [c EXCEPT !.probe = outcome]
       IN  IF ~Caught(outcome) THEN Return(c, cyc, "noChange")
           ELSE IF embedThrowsOf[<<cyc.voteData, cyc.timestampData>>]
             THEN Return(c, cyc, "embedError")
             ELSE Goto(c, [cyc EXCEPT !.pc = "L234",
                                      !.embed = EmbedRef(cyc.voteData, cyc.timestampData)])
  /\ UNCHANGED <<started, now, nCycles, messages, db, hostTz, shapeIn, shapeOut>>

\* what channel.send({ embeds: [embed] }) may answer; a null embed is rejected
SendOutcomes(embed) == IF embed.isNull THEN {"throw"} ELSE {"ok", "throw"}


\* mutant: the id of the message sent is not put into the document
AfterSend_noId(cyc, id) == [cyc EXCEPT !.message = id, !.sent = @ + 1]

\* lines 235, 257 and 262: the new message is kept and its id recorded
AfterSend(cyc, id) ==
  [cyc EXCEPT !.message = id,
              !.sent = @ + 1,
              !.storedData = SetPath(@, "lastMessageId", id)]

\* mutant: line 266 is missing
StampAndSave_keepHash(cyc, t, pc) ==
  [cyc EXCEPT !.pc = pc, !.stampedAt = t, !.storedData = SetDate(@, "updatedAt", t)]

\* mutant: line 267 is missing
StampAndSave_keepTime(cyc, t, pc) ==
  [cyc EXCEPT !.pc = pc, !.stampedAt = t,
              !.storedData = SetPath(@, "lastUpdateHash", cyc.newHash)]

\* lines 236-238 and 266-268: the hash and the time are set, save is issued
StampAndSave(cyc, t, pc) ==
  [cyc EXCEPT !.pc = pc,
              !.stampedAt = t,
              !.storedData = SetDate(SetPath(@, "lastUpdateHash", cyc.newHash),
                                     "updatedAt", t)]

\* mutant: line 235 is missing
RepostSendDone_keepId(c) ==
  /\ c.pc = "L234"
  /\ \E outcome \in SendOutcomes(c.embed) :
       IF outcome = "throw"
         THEN /\ Return(c, c, "sendError")
              /\ UNCHANGED messages
         ELSE /\ messages' = Append(messages, NewMessage(c.embed))
              /\ Goto(c, StampAndSave([c EXCEPT !.message = Len(messages) + 1,
                                                !.sent = @ + 1], now, "L238"))
  /\ UNCHANGED <<started, now, nCycles, db, hostTz, shapeIn, shapeOut>>

\* lines 234-238: the repost of the unchanged branch settles
RepostSendDone(c) ==
  /\ c.pc = "L234"
  /\ \E outcome \in SendOutcomes(c.embed) :
       IF outcome = "throw"
         THEN /\ Return(c, c, "sendError")
              /\ UNCHANGED messages
         ELSE /\ messages' = Append(messages, NewMessage(c.embed))
              /\ Goto(c, StampAndSave(AfterSend(c, Len(messages) + 1), now, "L238"))
  /\ UNCHANGED <<started, now, nCycles, db, hostTz, shapeIn, shapeOut>>

\* lines 252-253: the fetch of the message to edit settles; the edit is
\* issued, or the catch of line 255 sends
MessageFetched(c) ==
  /\ c.pc = "L252"
  /\ \E outcome \in MessageFetchOutcomes(c.storedData.lastMessageId) :
       LET cyc == [c EXCEPT !.probe = outcome]
       IN  IF ~Caught(outcome)
             THEN Goto(c, [cyc EXCEPT !.pc = "L253",
                                      !.message = cyc.storedData.lastMessageId])
             ELSE Goto(c, [cyc EXCEPT !.pc = "L256"])
  /\ UNCHANGED <<started, now, nCycles, messages, db, hostTz, shapeIn, shapeOut>>

\* what message.edit may answer: a live message is edited or the request
\* fails; a deleted one is rejected as unknown
EditOutcomes(id) == IF IsLive(id) THEN {"ok", "throw"} ELSE {"unknownMessage"}

\* mutant: the edit stands outside the try of line 251, a rejected edit
\* leaves through the catch of line 271
EditDone_uncaught(c) ==
  /\ c.pc = "L253"
  /\ \E outcome \in EditOutcomes(c.message) :
       LET cyc == [c EXCEPT !.editOutcome = outcome]
       IN  IF outcome # "ok"
             THEN /\ Return(c, cyc, "editError")
                  /\ UNCHANGED messages
             ELSE /\ messages' = [messages EXCEPT ![cyc.message].embed = cyc.embed]
                  /\ Goto(c, StampAndSave([cyc EXCEPT !.edited = @ + 1,
                                                      !.editedId = cyc.message],
                                          now, "L268"))
  /\ UNCHANGED <<started, now, nCycles, db, hostTz, shapeIn, shapeOut>>

\* lines 253-256 and 266-268: the edit settles
EditDone(c) ==
  /\ c.pc = "L253"
  /\ \E outcome \in EditOutcomes(c.message) :
       LET cyc == [c EXCEPT !.editOutcome = outcome]
       IN  IF outcome # "ok"
             THEN /\ Goto(c, [cyc EXCEPT !.pc = "L256"])
                  /\ UNCHANGED messages
             ELSE /\ messages' = [messages EXCEPT ![cyc.message].embed = cyc.embed]
                  /\ Goto(c, StampAndSave([cyc EXCEPT !.edited = @ + 1,
                                                      !.editedId = cyc.message],
                                          now, "L268"))
  /\ UNCHANGED <<started, now, nCycles, db, hostTz, shapeIn, shapeOut>>

\* lines 256-257 and 261-262, then 266-268: a send of the changed branch settles
SendDone(c) ==
  /\ c.pc \in {"L256", "L261"}
  /\ \E outcome \in SendOutcomes(c.embed) :
       IF outcome = "throw"
         THEN /\ Return(c, c, "sendError")
              /\ UNCHANGED messages
         ELSE /\ messages' = Append(messages, NewMessage(c.embed))
              /\ Goto(c, StampAndSave(AfterSend(c, Len(messages) + 1), now, "L268"))
  /\ UNCHANGED <<started, now, nCycles, db, hostTz, shapeIn, shapeOut>>

\* what storedData.save() may answer
SaveOutcomes(doc, row) == IF SaveMustFail(doc, row) THEN {"throw"} ELSE {"ok", "throw"}

\* lines 238 and 268: storedData.save() settles
SaveDone(c) ==
  /\ c.pc \in {"L238", "L268"}
  /\ \E outcome \in SaveOutcomes(c.storedData, db) :
       IF outcome = "throw"
         THEN /\ Return(c, c, "saveError")
              /\ UNCHANGED db
         ELSE /\ db' = SavedRow(c.storedData, db)
              /\ Return(c, [c EXCEPT !.saved = TRUE, !.rowBefore = db, !.wrote = db'],
                        "completed")
  /\ UNCHANGED <<started, now, nCycles, messages, hostTz, shapeIn, shapeOut>>

\* a user or a moderator deletes a message of the bot
DeleteMessage(id) ==
  /\ IsLive(id)
  /\ messages' = [messages EXCEPT ![id] = [live |-> FALSE, embed |-> NullEmbedRef]]
  /\ lastDone' = NoneDone
  /\ UNCHANGED <<started, now, nCycles, cycles, db, hostTz, shapeIn, shapeOut, unsavedSend, saveFailed>>

Next ==
  \/ startVoteMonitoring
  \/ IntervalTick
  \/ \E c \in BagToSet(cycles) : ChannelFetched(c)
  \/ \E c \in BagToSet(cycles) : FetchVoteCountDone(c)
  \/ \E c \in BagToSet(cycles) : FetchVoteTimestampsDone(c)
  \/ \E c \in BagToSet(cycles) : FindOneDone(c)
  \/ \E c \in BagToSet(cycles) : ProbeDone(c)
  \/ \E c \in BagToSet(cycles) : RepostSendDone(c)
  \/ \E c \in BagToSet(cycles) : MessageFetched(c)
  \/ \E c \in BagToSet(cycles) : EditDone(c)
  \/ \E c \in BagToSet(cycles) : SendDone(c)
  \/ \E c \in BagToSet(cycles) : SaveDone(c)
  \/ \E id \in 1..Len(messages) : DeleteMessage(id)

Spec == Init /\ [][Next]_vars

\* the ready event arrives and the timer of setInterval fires; nothing is
\* assumed of the calls that updateVoteMessage awaits.  The timer reads
\* nothing of the stored document: the runs are those of the first run
LiveInit ==
  /\ Constructed
  /\ FirstRun
  /\ shapeIn = NoShapeIn
  /\ shapeOut = NoShapeOut

LiveSpec ==
  /\ LiveInit
  /\ [][Next]_vars
  /\ WF_vars(startVoteMonitoring)
  /\ WF_vars(IntervalTick)

(***************************************************************************)
(* generateDataHash and createVoteEmbed on their own: the payloads are     *)
(* drawn from the lists below and one of the two functions is applied.     *)
(***************************************************************************)
\* the longest voters list and the longest votes list drawn
MaxVoters == 2
MaxVotes == 2

NickB == Str(<<"B">>)
DateB ==
  Str(<<"J","u","l","y"," ","2","4","t","h",","," ","2","0","2","5"," ",
        "1","1",":","0","5"," ","P","M"," ","E","S","T">>)

\* the entries of voters and of votes the provider may send
ShapeVoters ==
  {Voter(n, v) : n \in {NickA, NickB}, v \in {Str(<<"9">>), Str(<<"1","0">>)}}
ShapeVotes ==
  { Vote(DateA, 1753252020, NickA), Vote(DateB, 1753252020, NickA),
    Vote(DateB, 1753416300, NickA), Vote(DateA, 1753416300, NickB) }

ListsOf(S, maxLen) == UNION {[1..n -> S] : n \in 0..maxLen}

ShapeInputs ==
  [voteData : {VoteDataOf(<<>>, vs) : vs \in ListsOf(ShapeVoters, MaxVoters)},
   timestampData : {TimestampDataOf(es) : es \in ListsOf(ShapeVotes, MaxVotes)},
   date : {JsNull}]

\* lines 157 and 170-175: what the forEach callback shows of the voter at
\* each place of sortedVoters
Records(voteData, timestampData, tzMinutes) ==
  [i \in 1..Len(voteData.voters) |->
     [nickname |-> sortedVoters(voteData)[i].nickname,
      votes |-> sortedVoters(voteData)[i].votes,
      latestVote |-> getLatestTimestampForUser(timestampData,
                                               sortedVoters(voteData)[i].nickname),
      lastVoteDate |->
        LastVoteDateOf(getLatestTimestampForUser(timestampData,
                                                 sortedVoters(voteData)[i].nickname),
                       tzMinutes)]]

ShapeInit ==
  /\ Constructed
  /\ FirstRun
  /\ shapeIn \in ShapeInputs
  /\ shapeOut = NoShapeOut

\* line 217: this.generateDataHash(voteData, timestampData)
ApplyGenerateDataHash ==
  /\ shapeOut.op = "none"
  /\ shapeOut' = [NoShapeOut EXCEPT
                    !.op = "generateDataHash",
                    !.hash = generateDataHash(shapeIn.voteData, shapeIn.timestampData)]
  /\ UNCHANGED <<started, now, nCycles, cycles, messages, db, hostTz, lastDone,
                 unsavedSend, saveFailed, shapeIn>>

\* lines 233 and 243: this.createVoteEmbed(voteData, timestampData)
ApplyCreateVoteEmbed ==
  /\ shapeOut.op = "none"
  /\ shapeOut' = [NoShapeOut EXCEPT
                    !.op = "createVoteEmbed",
                    !.sortedVoters = sortedVoters(shapeIn.voteData),
                    !.records = Records(shapeIn.voteData, shapeIn.timestampData, hostTz),
                    !.embed = createVoteEmbed(shapeIn.voteData, shapeIn.timestampData,
                                              hostTz)]
  /\ UNCHANGED <<started, now, nCycles, cycles, messages, db, hostTz, lastDone,
                 unsavedSend, saveFailed, shapeIn>>

ShapeNext == ApplyGenerateDataHash \/ ApplyCreateVoteEmbed

ShapeSpec == ShapeInit /\ [][ShapeNext]_vars

(***************************************************************************)
(* The runs in which the provider data stops changing.  The first          *)
(* ChaosCycles calls run as in Spec.  The period of calm begins with the   *)
(* next tick, which finds no earlier call in flight: from then on the two  *)
(* reads return CalmData, no message is deleted and no awaited call is     *)
(* rejected (but the insert of a second document, which the unique index   *)
(* must reject).                                                           *)
(***************************************************************************)
ChaosCycles == 1
CalmCycles == 2

\* the payloads (by reference) the provider keeps returning
CalmData == <<3, 2>>

InCalm == nCycles > ChaosCycles

\* the call c has met nothing but the data of the calm and accepted calls
CalmCall(c) ==
  /\ c.voteDone => c.voteData = CalmData[1]
  /\ c.tsDone => c.timestampData = CalmData[2]
  /\ c.probe # "error"
  /\ c.editOutcome # "throw"
  /\ c.pc \notin {"channelNotFound", "channelError", "fetchFailed", "loadError",
                  "embedError", "noEmbed", "sendError"}
  /\ c.pc = "saveError" => SaveMustFail(c.storedData, db)

Calm == InCalm => \A c \in BagToSet(cycles) \cup {lastDone} : CalmCall(c)

\* lines 279-281: the interval fires; the tick that begins the calm finds
\* no call in flight
CalmTick ==
  /\ started
  /\ nCycles < ChaosCycles + CalmCycles
  /\ InFlight < MaxInFlight
  /\ nCycles = ChaosCycles => InFlight = 0
  /\ now' = now + 1
  /\ nCycles' = nCycles + 1
  /\ cycles' = cycles (+) SetToBag({NewCycle})
  /\ lastDone' = NoneDone
  /\ UNCHANGED <<started, messages, db, hostTz, shapeIn, shapeOut, unsavedSend, saveFailed>>

\* a step of a call of updateVoteMessage
CallStep ==
  \E c \in BagToSet(cycles) :
    \/ ChannelFetched(c) \/ FetchVoteCountDone(c) \/ FetchVoteTimestampsDone(c)
    \/ FindOneDone(c) \/ ProbeDone(c) \/ RepostSendDone(c) \/ MessageFetched(c)
    \/ EditDone(c) \/ SendDone(c) \/ SaveDone(c)

CalmNext ==
  \/ startVoteMonitoring
  \/ CalmTick
  \/ CallStep /\ Calm'
  \/ ~InCalm /\ \E id \in 1..Len(messages) : DeleteMessage(id)

\* the ready event arrives, the timer fires and every awaited call settles
CalmSpec ==
  /\ Init
  /\ [][CalmNext]_vars
  /\ WF_vars(startVoteMonitoring)
  /\ WF_vars(CalmTick)
  /\ WF_vars(CallStep /\ Calm')

(***************************************************************************)
(* convertESTtoIST as a function of the date of a vote and of the zone of  *)
(* the host: the state holds one date value and the zone, and one step     *)
(* applies the function, alone or inside createVoteEmbed.                  *)
(***************************************************************************)
\* minutes east of UTC of the hosts the bot may run on: New York in winter,
\* UTC, Kolkata
DateZones == {0 - 300, 0, 330}

\* the date strings of the layout the provider sends
ProviderDates ==
  { Concat(<< m, Str(<<" ">>), d, Str(<<","," ">>), y, Str(<<" ">>), c,
              Str(<<" ","E","S","T">>) >>) :
      m \in { Str(<<"J","a","n","u","a","r","y">>), Str(<<"J","u","l","y">>),
              Str(<<"D","e","c","e","m","b","e","r">>) },
      d \in { Str(<<"1","s","t">>), Str(<<"2","n","d">>), Str(<<"2","3","r","d">>),
              Str(<<"3","1","s","t">>) },
      y \in { Str(<<"2","0","2","5">>) },
      c \in { Str(<<"1","2",":","0","0"," ","A","M">>),
              Str(<<"0","2",":","2","7"," ","A","M">>),
              Str(<<"0","1",":","3","0"," ","P","M">>),
              Str(<<"1","1",":","0","5"," ","P","M">>) } }

\* strings no Date can be read from
GarbledDates ==
  { Str(<<"n","o","t"," ","a"," ","d","a","t","e">>),
    Str(<<"U","n","k","n","o","w","n"," ","E","S","T">>),
    Str(<<" "," "," ">>),
    Str(<<"J","u","l","y"," ","3","2","n","d",","," ","2","0","2","5"," ",
          "0","2",":","2","7"," ","A","M"," ","E","S","T">>) }

DateValues ==
  {JsString(d) : d \in ProviderDates \cup GarbledDates \cup {<<>>, Unknown}}
    \cup {JsNull, JsNumber(0), JsNumber(1753252020)}

\* the payloads in which voter A has one vote that carries the date value;
\* a vote whose date is no string is left out of the payload of the model
DateInputs ==
  { [voteData |-> VoteDataOf(<<>>, <<Voter(NickA, Str(<<"3">>))>>),
     timestampData |->
       IF v.kind = "string"
         THEN TimestampDataOf(<<Vote(v.text, 1753252020, NickA)>>)
         ELSE TimestampDataOf(<<>>),
     date |-> v] : v \in DateValues }

DateInit ==
  /\ started = FALSE
  /\ now = 0
  /\ nCycles = 0
  /\ cycles = EmptyBag
  /\ hostTz \in DateZones
  /\ lastDone = NoneDone
  /\ unsavedSend = FALSE
  /\ saveFailed = {}
  /\ FirstRun
  /\ shapeIn \in DateInputs
  /\ shapeOut = NoShapeOut

\* line 171: this.convertESTtoIST(latestVote.date)
ApplyConvertESTtoIST ==
  /\ shapeOut.op = "none"
  /\ shapeOut' = [NoShapeOut EXCEPT
                    !.op = "convertESTtoIST",
                    !.threw = convertESTtoISTThrows(shapeIn.date),
                    !.lastVoteDate = IF convertESTtoISTThrows(shapeIn.date) THEN <<>>
                                     ELSE convertESTtoISTOf(shapeIn.date, hostTz)]
  /\ UNCHANGED <<started, now, nCycles, cycles, messages, db, hostTz, lastDone,
                 unsavedSend, saveFailed, shapeIn>>

DateNext == ApplyConvertESTtoIST \/ ApplyCreateVoteEmbed

DateSpec == DateInit /\ [][DateNext]_vars

(***************************************************************************)
(* Properties.  lastDone is the call that returned in the last step; its   *)
(* pc is the way it returned.                                              *)
(***************************************************************************)
\* both provider reads answered with a payload that has its list
FetchedBoth(d) ==
  /\ d.voteDone /\ d.tsDone
  /\ ~VoteDataAt(d.voteData).isNull /\ VoteDataAt(d.voteData).hasVoters
  /\ ~TimestampDataAt(d.timestampData).isNull /\ TimestampDataAt(d.timestampData).hasVotes

\* C1: the channel never holds more than one live message of the bot.
C1_SingleLiveMessage == Cardinality(LiveIds) <= 1

\* C2: the scheduler never starts a call of updateVoteMessage while an
\* earlier call has not returned.
C2_SerialCycles == InFlight <= 1

\* C3 (NO_PRIOR_STATE): a call that fetched both datasets and found no
\* document never edits and sends at most once; it returns after the send
\* was rejected (nothing sent), after the save was rejected, or normally, and
\* in the last two cases it has sent exactly one message; when it returns
\* normally the row it saved holds the fresh, non-empty hash and the id of
\* the message it sent.
C3_NoPriorState ==
  (lastDone.loaded /\ ~lastDone.hadRow /\ FetchedBoth(lastDone)) =>
    /\ lastDone.edited = 0
    /\ lastDone.pc \in {"sendError", "saveError", "completed"}
    /\ lastDone.sent = (IF lastDone.pc = "sendError" THEN 0 ELSE 1)
    /\ lastDone.pc = "completed" =>
         /\ lastDone.wrote.exists
         /\ lastDone.newHash # <<>>
         /\ lastDone.wrote.lastUpdateHash = lastDone.newHash
         /\ lastDone.message \in 1..Len(messages)
         /\ lastDone.wrote.lastMessageId = lastDone.message

C3_Witness ==
  /\ lastDone.pc = "completed" /\ lastDone.loaded /\ ~lastDone.hadRow
  /\ lastDone.sent = 1 /\ FetchedBoth(lastDone)

\* C4 (UNCHANGED_AND_LIVE): a call whose fresh hash equals the stored one
\* and whose existence check found the message returns at once: it has
\* sent nothing, edited nothing, changed no path of the document and issued
\* no save.
C4_UnchangedAndLive ==
  (lastDone.loaded /\ lastDone.loadedHash = lastDone.newHash /\ lastDone.probe = "found") =>
    /\ lastDone.pc = "noChange"
    /\ lastDone.sent = 0
    /\ lastDone.edited = 0
    /\ lastDone.storedData.modified = {}
    /\ ~lastDone.saved
    /\ lastDone.wrote = NoRow

C4_Witness ==
  /\ lastDone.pc = "noChange" /\ lastDone.probe = "found"
  /\ lastDone.loadedHash = lastDone.newHash /\ db.exists

\* C5 (UNCHANGED_BUT_MISSING): a call whose fresh hash equals the stored
\* one and whose existence check answered not-found never edits and sends at
\* most once; when it returns normally it has sent exactly one message, the
\* saved row holds the id of that message, and the save has left the stored
\* hash as it was.
C5_UnchangedButMissing ==
  (lastDone.loaded /\ lastDone.loadedHash = lastDone.newHash
     /\ lastDone.probe = "notFound") =>
    /\ lastDone.edited = 0
    /\ lastDone.sent <= 1
    /\ lastDone.pc \in {"embedError", "sendError", "saveError", "completed"}
    /\ lastDone.pc = "completed" =>
         /\ lastDone.sent = 1
         /\ lastDone.message # lastDone.loadedMessageId
         /\ lastDone.wrote.lastMessageId = lastDone.message
         /\ lastDone.wrote.lastUpdateHash = lastDone.rowBefore.lastUpdateHash

C5_Witness ==
  /\ lastDone.pc = "completed" /\ lastDone.probe = "notFound"
  /\ lastDone.loadedHash = lastDone.newHash /\ lastDone.sent = 1

C7_ChangedNotEditable ==
  (lastDone.loaded /\ lastDone.loadedHash # lastDone.newHash /\ FetchedBoth(lastDone)
     /\ (lastDone.loadedMessageId = 0 \/ lastDone.probe = "notFound")) =>
    /\ lastDone.edited = 0
    /\ lastDone.pc \in {"sendError", "saveError", "completed"}
    /\ lastDone.sent = (IF lastDone.pc = "sendError" THEN 0 ELSE 1)
    /\ lastDone.pc = "completed" =>
         /\ lastDone.message # lastDone.loadedMessageId
         /\ lastDone.wrote.lastUpdateHash = lastDone.newHash
         /\ lastDone.wrote.lastMessageId = lastDone.message
         /\ lastDone.wrote.updatedAt = lastDone.stampedAt

C7_Witness ==
  /\ lastDone.pc = "completed" /\ lastDone.hadRow /\ lastDone.probe = "notFound"
  /\ lastDone.loadedHash # lastDone.newHash /\ lastDone.sent = 1

\* C8: a call whose existence check failed with a transient error has, when
\* it returns, sent nothing, edited nothing and saved nothing.
C8_TransientErrorAborts ==
  lastDone.probe = "error" =>
    lastDone.sent = 0 /\ lastDone.edited = 0 /\ ~lastDone.saved

\* C9: a call one of whose provider reads failed returns at line 214, with
\* nothing sent, edited or saved, whatever the other read returned; no call
\* goes on past Promise.all with a failed read.
C9_FetchFailureAborts ==
  /\ (lastDone.voteDone /\ lastDone.tsDone
        /\ (lastDone.voteData = 0 \/ lastDone.timestampData = 0)) =>
       /\ lastDone.pc = "fetchFailed"
       /\ lastDone.sent = 0 /\ lastDone.edited = 0
       /\ ~lastDone.saved /\ lastDone.wrote = NoRow
  /\ \A c \in BagToSet(cycles) :
       (c.voteDone /\ c.tsDone) => (c.voteData # 0 /\ c.timestampData # 0)

C9_Witness ==
  /\ lastDone.pc = "fetchFailed"
  /\ lastDone.voteData = 0 /\ lastDone.timestampData # 0
  /\ db.exists

\* C10: as long as no call has returned between its send and its save, no
\* call sends a new message while the message the stored lastMessageId
\* refers to is live.
C10_SendOnlyWhenReferenceDead ==
  [][ (Len(messages') > Len(messages) /\ ~unsavedSend)
        => ~(db.exists /\ IsLive(db.lastMessageId)) ]_vars

\* C11: a call that returns normally after a send or an edit was accepted has
\* had its save accepted before it returned, and the row that save wrote
\* holds the fresh hash and, after a send, the id of the message sent; the
\* only other return of such a call is through the catch of line 271.
C11_ActionThenSave ==
  (lastDone.sent + lastDone.edited > 0) =>
    /\ lastDone.pc \in {"completed", "saveError"}
    /\ lastDone.pc = "completed" =>
         /\ lastDone.saved
         /\ lastDone.wrote.exists
         /\ lastDone.wrote.lastUpdateHash = lastDone.newHash
         /\ lastDone.sent > 0 => lastDone.wrote.lastMessageId = lastDone.message
         /\ db = lastDone.wrote

\* C12: a call that found the row of an earlier completed call, fetched data
\* with the hash that row holds, and whose referenced message is live when
\* it returns has sent nothing, edited nothing and saved nothing.
C12_Idempotent ==
  (lastDone.loaded /\ lastDone.hadRow /\ lastDone.loadedHash = lastDone.newHash
     /\ IsLive(lastDone.loadedMessageId)) =>
    /\ lastDone.sent = 0 /\ lastDone.edited = 0 /\ ~lastDone.saved

\* C13: a call stands at message.edit (line 253), or has had an edit
\* accepted, only after channel.messages.fetch resolved in that same call
\* for the id the call loaded, and the message it edits is that one.
C13_EditOnlyAfterFetch ==
  \A c \in BagToSet(cycles) \cup {lastDone} :
    /\ c.pc = "L253" =>
         /\ c.probe = "found"
         /\ c.loadedMessageId # 0 /\ c.message = c.loadedMessageId
    /\ c.editOutcome # "none" => c.probe = "found"
    /\ c.edited > 0 => c.editedId = c.loadedMessageId

C13_Witness ==
  \E c \in BagToSet(cycles) :
    c.pc = "L253" /\ c.probe = "found" /\ IsLive(c.message)

\* the records of a payload pair as a reader of the message sees them:
\* nickname, vote count and last-vote display, in the order shown
Shaped(in) ==
  [i \in 1..Len(in.voteData.voters) |->
     [nickname |-> Records(in.voteData, in.timestampData, hostTz)[i].nickname,
      votes |-> Records(in.voteData, in.timestampData, hostTz)[i].votes,
      lastVoteDate |-> Records(in.voteData, in.timestampData, hostTz)[i].lastVoteDate]]

\* C14: the hash generateDataHash returned for shapeIn is the hash of every
\* payload pair that shows the same records.
C14_HashOfShapedRecords ==
  shapeOut.op = "generateDataHash" =>
    \A other \in ShapeInputs :
      Shaped(other) = Shaped(shapeIn) =>
        generateDataHash(other.voteData, other.timestampData) = shapeOut.hash

\* b holds the entries of a, each as often, in some order
IsPermutationOf(a, b) ==
  /\ Len(a) = Len(b)
  /\ \A i \in 1..Len(a) :
       Cardinality({k \in 1..Len(a) : a[k] = a[i]})
         = Cardinality({k \in 1..Len(b) : b[k] = a[i]})

\* C15: the hash generateDataHash returned for shapeIn is the hash of every
\* payload pair whose voters and votes are those of shapeIn in another order.
C15_HashIgnoresOrder ==
  shapeOut.op = "generateDataHash" =>
    \A other \in ShapeInputs :
      (/\ IsPermutationOf(shapeIn.voteData.voters, other.voteData.voters)
       /\ IsPermutationOf(shapeIn.timestampData.votes, other.timestampData.votes)) =>
        generateDataHash(other.voteData, other.timestampData) = shapeOut.hash

\* the ways to list the indices 1..n once each
Orderings(n) == {p \in [1..n -> 1..n] : \A i, j \in 1..n : p[i] = p[j] => i = j}

\* C16: the list createVoteEmbed renders from holds the fetched voters, each
\* once, by vote count from the highest to the lowest, and two voters with
\* the same count stand in the order in which they were fetched.
C16_SortedStable ==
  shapeOut.op = "createVoteEmbed" =>
    \E p \in Orderings(Len(shapeIn.voteData.voters)) :
      /\ Len(shapeOut.sortedVoters) = Len(shapeIn.voteData.voters)
      /\ \A i \in 1..Len(shapeOut.sortedVoters) :
           shapeOut.sortedVoters[i] = shapeIn.voteData.voters[p[i]]
      /\ \A i, j \in 1..Len(shapeOut.sortedVoters) :
           i < j =>
             \/ DigitsValue(shapeOut.sortedVoters[i].votes)
                  > DigitsValue(shapeOut.sortedVoters[j].votes)
             \/ /\ DigitsValue(shapeOut.sortedVoters[i].votes)
                     = DigitsValue(shapeOut.sortedVoters[j].votes)
                /\ p[i] < p[j]

C16_Witness ==
  /\ shapeOut.op = "createVoteEmbed"
  /\ Len(shapeOut.sortedVoters) >= 2
  /\ shapeOut.sortedVoters # shapeIn.voteData.voters
  /\ shapeOut.sortedVoters[1].votes = Str(<<"1","0">>)

\* the places in votes of the events of nickname
EventsOf(votes, nickname) == {k \in 1..Len(votes) : votes[k].nickname = nickname}

\* C17: for every voter rendered, the vote the last-vote display is made from
\* is the event of that voter's nickname with the greatest timestamp, the
\* first of them in the fetched order when several share it; a voter with
\* no event of that nickname shows "Unknown".
C17_LatestVoteOfUser ==
  shapeOut.op = "createVoteEmbed" =>
    \A i \in 1..Len(shapeOut.records) :
      LET votes == shapeIn.timestampData.votes
          own   == EventsOf(votes, shapeOut.records[i].nickname)
      IN  IF own = {}
            THEN /\ ~shapeOut.records[i].latestVote.found
                 /\ shapeOut.records[i].lastVoteDate = Unknown
            ELSE \E k \in own :
                   /\ \A m \in own : votes[m].timestamp <= votes[k].timestamp
                   /\ \A m \in own : votes[m].timestamp = votes[k].timestamp => k <= m
                   /\ shapeOut.records[i].latestVote.found
                   /\ shapeOut.records[i].latestVote.vote = votes[k]
                   /\ shapeOut.records[i].lastVoteDate
                        = convertESTtoIST(votes[k].date, hostTz)

C17_Witness ==
  /\ shapeOut.op = "createVoteEmbed"
  /\ \E i \in 1..Len(shapeOut.records) :
       /\ Cardinality(EventsOf(shapeIn.timestampData.votes,
                               shapeOut.records[i].nickname)) = 2
       /\ shapeIn.timestampData.votes[1].timestamp
            < shapeIn.timestampData.votes[2].timestamp
       /\ shapeOut.records[i].latestVote.vote = shapeIn.timestampData.votes[2]

\* the text that lists the records from place i on: rank, nickname, vote
\* count and last-vote display of each, in this order
RECURSIVE ListedFrom(_, _)
ListedFrom(records, i) ==
  IF i > Len(records) THEN <<>>
  ELSE Str(<<"*","*">>) \o NatToString(i) \o Str(<<".","*","*"," ">>)
         \o records[i].nickname \o Str(<<"\n">>)
         \o Str(<<"*","*","V","o","t","e","s",":","*","*"," ">>)
         \o records[i].votes \o Str(<<"\n">>)
         \o Str(<<"*","*","L","a","s","t"," ","V","o","t","e",":","*","*"," ">>)
         \o records[i].lastVoteDate \o Str(<<"\n","\n">>)
         \o ListedFrom(records, i + 1)

\* C18: the description createVoteEmbed sets lists the records in sorted
\* order, each once, ranked 1..n by its place, with nickname, vote count and
\* last-vote display; with no record it is the placeholder text.
C18_RenderedBody ==
  shapeOut.op = "createVoteEmbed" =>
    /\ ~shapeOut.embed.isNull
    /\ Len(shapeOut.records) = Len(shapeIn.voteData.voters)
    /\ \A i \in 1..Len(shapeOut.records) :
         /\ shapeOut.records[i].nickname = shapeOut.sortedVoters[i].nickname
         /\ shapeOut.records[i].votes = shapeOut.sortedVoters[i].votes
    /\ shapeOut.embed.description =
         (IF Len(shapeOut.records) = 0 THEN NoVotesYet
          ELSE ListedFrom(shapeOut.records, 1))
    /\ shapeOut.embed.description # <<>>

C18_Witness ==
  /\ shapeOut.op = "createVoteEmbed"
  /\ Len(shapeOut.records) = 2
  /\ shapeOut.records[1].nickname # shapeOut.records[2].nickname
  /\ shapeOut.embed.description # NoVotesYet

\* C20: a call that waits at Promise.all with neither read settled has both
\* reads in flight, so either may settle first; a call that has taken the
\* hash, issued findOne, loaded the document, sent or edited, or returned at
\* line 214, has had both reads settle before.
C20_BothReadsFirst ==
  /\ \A c \in BagToSet(cycles) :
       (c.pc = "L207" /\ ~c.voteDone /\ ~c.tsDone) =>
         /\ ENABLED FetchVoteCountDone(c)
         /\ ENABLED FetchVoteTimestampsDone(c)
  /\ \A c \in BagToSet(cycles) \cup {lastDone} :
       /\ c.pc = "L207" => ~(c.voteDone /\ c.tsDone)
       /\ c.pc \in {"idle", "L201", "channelNotFound", "channelError"} =>
            (~c.voteDone /\ ~c.tsDone)
       /\ (\/ c.pc \notin {"idle", "none", "L201", "L207",
                            "channelNotFound", "channelError"}
           \/ c.newHash # <<>> \/ c.loaded \/ c.sent > 0 \/ c.edited > 0) =>
            (c.voteDone /\ c.tsDone)

C20_Witness ==
  /\ InFlight = 1
  /\ \E c \in BagToSet(cycles) : c.pc = "L207" /\ c.tsDone /\ ~c.voteDone

\* the ways a call of updateVoteMessage ends on a failure: the returns of
\* lines 204 and 214 and the catch of line 271
FailedReturns ==
  {"channelNotFound", "channelError", "fetchFailed", "loadError", "embedError",
   "sendError", "saveError"}

\* C19: the first call is made in the step that arms the interval; the
\* interval can fire whatever the calls so far have done; and after a call
\* has ended on a failure and left none in flight, the next call is started.
C19_TicksSurviveFailures ==
  /\ [](started => nCycles >= 1)
  /\ []((started /\ nCycles < MaxCycles /\ InFlight < MaxInFlight)
          => ENABLED IntervalTick)
  /\ (lastDone.pc \in FailedReturns /\ InFlight = 0 /\ nCycles < MaxCycles)
       ~> (InFlight > 0)

C19_Witness ==
  /\ lastDone.pc \in FailedReturns
  /\ InFlight = 0
  /\ nCycles < MaxCycles
  /\ ENABLED IntervalTick

\* lines 117-122: the string handed to the Date constructor
CleanedDate(text) ==
  StripOrdinal(Trim(RemoveFirst(text, Str(<<" ","E","S","T">>))))
     \o Str(<<" ">>) \o GmtMinus5

\* a non-empty string other than 'Unknown' from which no date is read
Unparsable(value) ==
  /\ value.kind = "string" /\ value.text # <<>> /\ value.text # Unknown
  /\ DateParse(CleanedDate(value.text)).nan

\* C21: convertESTtoIST never throws to its caller; an empty or 'Unknown'
\* value gives 'Unknown', a string that does not parse gives 'Invalid Date';
\* createVoteEmbed over a vote with such a date still returns its embed with
\* that text in the line of the voter.
C21_NeverRaises ==
  /\ shapeOut.op = "convertESTtoIST" =>
       /\ ~shapeOut.threw
       /\ (Falsy(shapeIn.date) \/ shapeIn.date = JsString(Unknown))
            => shapeOut.lastVoteDate = Unknown
       /\ Unparsable(shapeIn.date) => shapeOut.lastVoteDate = InvalidDate
  /\ (shapeOut.op = "createVoteEmbed" /\ shapeIn.date.kind = "string") =>
       /\ ~shapeOut.embed.isNull
       /\ Len(shapeOut.records) = 1
       /\ (shapeIn.date.text \in {<<>>, Unknown})
            => shapeOut.records[1].lastVoteDate = Unknown
       /\ Unparsable(shapeIn.date) => shapeOut.records[1].lastVoteDate = InvalidDate

C21_Witness ==
  /\ shapeOut.op = "createVoteEmbed"
  /\ Unparsable(shapeIn.date)
  /\ shapeOut.records[1].lastVoteDate = InvalidDate

\* a string from which the Date constructor reads a date
ValidDate(value) ==
  /\ value.kind = "string" /\ value.text # <<>> /\ value.text # Unknown
  /\ ~DateParse(CleanedDate(value.text)).nan

\* the instant that a text of the layout of line 139 names when it is read
\* as a wall-clock time of the zone UTC+5:30
ParseDisplayed(text) ==
  LET w     == Words(text)
      clock == ClockOf(w[2])
      day   == DigitsValue(Slice(w[1], 1, 2))
      month == DigitsValue(Slice(w[1], 4, 5))
      year  == DigitsValue(Slice(w[1], 7, 10))
  IN  DaysFromCivil(year, month, day) * 86400
        + ((clock.h % 12) + (IF w[3] = Str(<<"P","M">>) THEN 12 ELSE 0)) * 3600
        + clock.m * 60 + clock.s - (5 * 3600 + 30 * 60)

\* C22: for a valid date the text shown is the wall-clock time of the source
\* (UTC-5) plus 10 hours 30 minutes on every host, and the text read back
\* as a time of UTC+5:30 is the instant of the source.
C22_FixedOffset ==
  (shapeOut.op = "convertESTtoIST" /\ ValidDate(shapeIn.date)) =>
    /\ shapeOut.lastVoteDate =
         FormatIST(LocalFields(DateParse(CleanedDate(shapeIn.date.text)).t
                                 - SourceOffsetSeconds + IstShiftSeconds, 0))
    /\ ParseDisplayed(shapeOut.lastVoteDate)
         = DateParse(CleanedDate(shapeIn.date.text)).t

\* C23: when no call is in flight and no save has failed, the live message
\* that the stored lastMessageId names shows the embed of payloads whose
\* hash is the stored lastUpdateHash.
C23_MessageMatchesHash ==
  (InFlight = 0 /\ saveFailed = {} /\ db.exists /\ IsLive(db.lastMessageId)) =>
    newHashOf[<<messages[db.lastMessageId].embed.voteData,
                messages[db.lastMessageId].embed.timestampData>>] = db.lastUpdateHash

\* C24: a call of the changed branch whose fetch of the stored message was
\* answered and whose edit was rejected because the message had been
\* deleted in between goes on to send: it returns normally only after one
\* send, with the id of the new message and the fresh hash saved; the only
\* other returns are the failure of that send or of the save.
C24_EditFailureAbsorbed ==
  (lastDone.probe = "found" /\ lastDone.editOutcome = "unknownMessage") =>
    /\ lastDone.pc \in {"completed", "sendError", "saveError"}
    /\ lastDone.edited = 0
    /\ lastDone.pc = "sendError" => lastDone.sent = 0
    /\ lastDone.pc = "saveError" => lastDone.sent = 1
    /\ lastDone.pc = "completed" =>
         /\ lastDone.sent = 1
         /\ lastDone.message # lastDone.loadedMessageId
         /\ lastDone.saved
         /\ db.exists
         /\ db.lastMessageId = lastDone.message
         /\ db.lastUpdateHash = lastDone.newHash

C24_Witness ==
  /\ lastDone.pc = "completed"
  /\ lastDone.probe = "found" /\ lastDone.editOutcome = "unknownMessage"
  /\ lastDone.sent = 1
  /\ ~IsLive(lastDone.loadedMessageId)
  /\ IsLive(db.lastMessageId)

\* C25: the stored document always carries the id of a message and a
\* non-empty hash, every document a call loads does, and no call ends in
\* the branch of line 229 (hash unchanged, no message id).
C25_RowsAreComplete ==
  /\ db.exists => (db.lastMessageId # 0 /\ db.lastUpdateHash # <<>>)
  /\ \A c \in BagToSet(cycles) \cup {lastDone} :
       /\ c.hadRow => (c.loadedMessageId # 0 /\ c.loadedHash # <<>>)
       /\ c.saved => (c.wrote.lastMessageId # 0 /\ c.wrote.lastUpdateHash # <<>>)
  /\ lastDone.pc # "noChangeNoMessage"

C25_Witness ==
  /\ lastDone.pc = "noChange"
  /\ lastDone.hadRow /\ lastDone.loadedHash = lastDone.newHash
  /\ lastDone.loadedMessageId # 0
  /\ nCycles = 2 /\ messages # <<>> /\ \A i \in 1..Len(messages) : messages[i].live

\* a call whose save was rejected after its edit, with the data and the
\* message that the call d has
FailedEditBefore(d) ==
  \E f \in saveFailed :
    f.edited /\ f.newHash = d.newHash /\ f.message = d.loadedMessageId

\* C26: a rejected save leaves the stored document as it was; and a call
\* that follows a call whose save was rejected after its edit, with the same
\* data and the same stored message id, sends no message next to that
\* message: it edits it again.
C26_SaveFailureAfterEdit ==
  /\ [][(lastDone'.pc = "saveError" /\ lastDone'.edited > 0)
           => (db' = db /\ Len(messages') = Len(messages))]_vars
  /\ []((lastDone.pc # "none" /\ lastDone.hadRow /\ FailedEditBefore(lastDone)
          /\ IsLive(lastDone.loadedMessageId))
         => /\ lastDone.sent = 0
            /\ (lastDone.pc = "completed"
                  => lastDone.editedId = lastDone.loadedMessageId))

\* the stored hash is the hash of the data of the calm and the stored id
\* names a live message
Converged ==
  /\ db.exists
  /\ db.lastUpdateHash = newHashOf[CalmData]
  /\ IsLive(db.lastMessageId)

\* C27: once the data stops changing, nothing is deleted and the awaited
\* calls are accepted, the stored hash becomes and stays the hash of the
\* data with a live message stored; a call that then loads that document
\* returns from the unchanged branch and changes nothing.
C27_Converges ==
  /\ <>[]Converged
  /\ [][(InCalm /\ lastDone'.pc # "none" /\ lastDone'.hadRow
          /\ lastDone'.loadedHash = newHashOf[CalmData]
          /\ IsLive(lastDone'.loadedMessageId))
         => (lastDone'.pc = "noChange" /\ lastDone'.sent = 0 /\ lastDone'.edited = 0
             /\ ~lastDone'.saved /\ db' = db /\ messages' = messages)]_vars

C27_Witness ==
  /\ InCalm /\ Converged /\ InFlight = 0
  /\ nCycles = ChaosCycles + CalmCycles
  /\ lastDone.pc = "noChange"
  /\ lastDone.hadRow /\ lastDone.sent = 0 /\ lastDone.edited = 0

\* the fold hash = hash * 31 + s[k], truncated to a signed 32-bit integer at
\* every step, over the characters i..j of s; the product is taken on the two
\* unsigned 16-bit halves of hash, and the range is halved at every level
RECURSIVE Fold31(_, _, _, _)
Fold31(s, i, j, hash) ==
  IF i > j THEN hash
  ELSE IF i = j
    THEN FromHalves((HiHalf(hash) % Half) * 31 + ((LoHalf(hash) * 31 + s[i]) \div Half),
                    (LoHalf(hash) * 31 + s[i]) % Half)
    ELSE LET left == Fold31(s, i, (i + j) \div 2, hash)
         IN  IF left \in Int THEN Fold31(s, (i + j) \div 2 + 1, j, left) ELSE left

\* str is the decimal string of an integer of [-2^31, 2^31 - 1]
DecimalInt32(str) ==
  LET neg    == str # <<>> /\ str[1] = 45
      digits == IF neg THEN Tail(str) ELSE str
      limit  == IF neg THEN Str(<<"2","1","4","7","4","8","3","6","4","8">>)
                ELSE Str(<<"2","1","4","7","4","8","3","6","4","7">>)
      differ == {i \in 1..10 : Len(digits) = 10 /\ digits[i] # limit[i]}
  IN  /\ AllDigits(digits)
      /\ Len(digits) = 1 \/ digits[1] # 48
      /\ neg => digits # <<48>>
      /\ Len(digits) <= 10
      /\ (Len(digits) = 10 /\ differ # {})
           => LET i == CHOOSE i \in differ : \A k \in differ : i <= k
              IN  digits[i] < limit[i]

\* C28: the hash is the decimal string of the fold hash * 31 + charCode over
\* the serialized payloads with a truncation to 32 bits at every step; it
\* is the string of an integer of [-2^31, 2^31 - 1], it is never the empty
\* default of lastUpdateHash, and the test of line 223 fails for it on a
\* new document.
C28_HashIsInt32Fold ==
  shapeOut.op = "generateDataHash" =>
    /\ shapeOut.hash =
         IntToString(Fold31(StringifyData(shapeIn.voteData.voters,
                                          shapeIn.timestampData.votes),
                            1,
                            Len(StringifyData(shapeIn.voteData.voters,
                                              shapeIn.timestampData.votes)),
                            0))
    /\ DecimalInt32(shapeOut.hash)
    /\ shapeOut.hash # <<>>
    /\ ~HashUnchanged(NewVoteData(0), shapeOut.hash)

C28_Witness ==
  /\ shapeOut.op = "generateDataHash"
  /\ shapeOut.hash[1] = 45
  /\ Len(shapeIn.voteData.voters) = MaxVoters
  /\ Len(shapeIn.timestampData.votes) = MaxVotes

====
